---- MODULE Spec2Model ----
(***************************************************************************)
(* Model of cptpy's record store (CPT / CPTu, src/cptpy/cpt.py and         *)
(* src/cptpy/cptu.py), of its validation pipeline CPT.sanity_check, of its *)
(* derived quantities and of the unit-weight registries                    *)
(* (src/cptpy/register.py, src/cptpy/par_unit_weight.py).                  *)
(*                                                                         *)
(* The store self._cpt is a sequence of rows; a row is a tuple of          *)
(* _ncols_in_cpt numbers <<depth, qc, fs>> or <<depth, qc, fs, u2>>.       *)
(* Row indices are Python's (0-based); row i of the store is cpt[i + 1].   *)
(* Depths are integers on a grid of 5E-7 m, so that the duplicate          *)
(* tolerance 1E-6 is EPS = 2 grid steps; qc, fs and u2 are integers.       *)
(* The statistics of the local-outlier screen are compared exactly (the    *)
(* z-score inequality is cross-multiplied so that no division is needed).  *)
(***************************************************************************)
EXTENDS Integers, Sequences, FiniteSets, TLC

VARIABLES
    cpt,                  \* self._cpt
    ncols,                \* self._ncols_in_cpt
    pc,                   \* position of the running call
    apply_fixes,          \* sanity_check's policy argument
    window_pts,           \* sanity_check's window argument
    check,                \* the check whose flagged rows are being handled
    problematic_indices,  \* argument of handle_problematic_indices
    indices_to_delete,    \* local of handle_problematic_indices
    k,                    \* rows of problematic_indices already handled
    key,                  \* argument of the last __delitem__
    entry,                \* self._cpt when the running call was entered
    pre,                  \* self._cpt when the running check scanned it
    prompted,             \* <<index, response>> of every input() of the check
    printed,              \* diagnostics printed by the running call
    err,                  \* exception raised by the running call
    fixed_with,           \* window_pts of the call that returned last, when it
                          \* was sanity_check(apply_fixes="yes"); else -1
    gwt,                  \* self.gwt of a CPTu: <<>> for None, <<g>> for a float
    arg,                  \* the running call: its name, its arguments other
                          \* than key, and what its loop has done
    ret,                  \* the value the running call returned
    register,             \* _register of the two unit-weight registries
    startup               \* statements of par_unit_weight.py executed so far

vars == <<cpt, ncols, pc, apply_fixes, window_pts, check, problematic_indices,
          indices_to_delete, k, key, entry, pre, prompted, printed, err,
          fixed_with, gwt, arg, ret, register, startup>>

\* What sanity_check and del self[key] neither read nor write.
extra == <<gwt, arg, ret, register, startup>>

-----------------------------------------------------------------------------
(* Bounds of the model.                                                    *)

MaxRows == 4

MaxStoreRows == 3

MaxKey == 2

\* The largest step of a slice.
MaxStep == 2

\* The longest input column handed to a constructor.
MaxLen == 3

\* The most rows of a store handed to a unit-weight procedure.
MaxUwRows == 1

\* The largest iteration budget niterations.
MaxIterations == 3

\* The input stores are drawn from three families, each a product of
\* per-row choices.  Depths of the first: non-positive, 1E-6 or more apart,
\* and less than 1E-6 apart.
DepthValues == {0, 2, 3, 5}

\* <<qc, fs>> of the second: valid and smooth, outlying, and non-positive.
Readings == {<<1, 1>>, <<1, 2>>, <<2, 2>>, <<9, 1>>, <<0, 1>>, <<0, 0>>}

\* <<depth, qc, fs, u2>> of the third: every kind of invalid row at once,
\* with pore pressures of either sign.
MixedRows ==
    {<<2, 1, 1, -1>>, <<8, 0, 1, 1>>, <<-1, 1, 1, 0>>, <<5, 1, 0, -1>>,
     <<5, 2, 1, 2>>}

Families == {"depth", "reading", "mixed"}

WindowValues == {1, 2}

Policies == {"yes", "no", "prompt", "y"}

Responses == {"y", "n"}

\* Net area ratios handed to qt, in hundredths: below, at the ends of, in
\* and above the recommended range.
AnValues == {50, 70, 80, 85, 90}

\* What a caller writes into an array it was given.
WriteValues == {0, 7}

-----------------------------------------------------------------------------
(* Program constants.                                                      *)

EPS == 2

reject_nstd == 6

\* 1/rtol of np.allclose (rtol=1E-5), and its atol=1E-8 in units of
\* rtol * 5E-7.
RTOL_INV == 100000

DEPTH_ATOL == 2000

\* Steps of the depth grid in a metre.
GRID_PER_M == 2000000

\* GAMMA_W of cptpy/constants.py, the unit weight of water, as the fraction
\* GAMMA_W_NUM/GAMMA_W_DEN kN/m3.
GAMMA_W_NUM == 981

GAMMA_W_DEN == 100

\* The recommended range of the net area ratio an, in hundredths.
AN_MIN == 70

AN_MAX == 85

-----------------------------------------------------------------------------
(* Column views.                                                           *)

qc(c) == [i \in 1..Len(c) |-> c[i][2]]

fs(c) == [i \in 1..Len(c) |-> c[i][3]]

-----------------------------------------------------------------------------
(* numpy helpers.                                                          *)

\* The ascending sequence of the members of a finite set of integers.
RECURSIVE Ascending(_)
Ascending(S) ==
    IF S = {} THEN <<>>
    ELSE LET m == CHOOSE x \in S : \A y \in S : x <= y
         IN  <<m>> \o Ascending(S \ {m})

\* np.argwhere(mask).flatten() for the set of 0-based positions where the
\* mask holds: those positions, ascending.
Argwhere(positions) == Ascending(positions)

\* Python's wrap of a negative index.
Normalize(idx, n) == IF idx < 0 THEN idx + n ELSE idx

\* np.delete raises IndexError for an index outside [-n, n).
KeyInBounds(arr, ky) ==
    \A j \in DOMAIN ky : ky[j] >= -Len(arr) /\ ky[j] < Len(arr)

\* Deleting one index after the other, each against the already compacted
\* array (index drift).
RECURSIVE DriftDelete(_, _)
DriftDelete(arr, ky) ==
    IF ky = <<>> THEN arr
    ELSE LET i == Normalize(Head(ky), Len(arr)) + 1
         IN  IF i \in DOMAIN arr
             THEN DriftDelete(SubSeq(arr, 1, i - 1) \o SubSeq(arr, i + 1, Len(arr)),
                              Tail(ky))
             ELSE DriftDelete(arr, Tail(ky))

\* np.delete(arr, key, axis=0) for a list of indices: the rows whose index
\* is in the list are masked out together, the others keep their order.
NpDelete(arr, ky) ==
    LET n == Len(arr)
        gone == {Normalize(ky[j], n) : j \in DOMAIN ky}
        keep == Ascending({i \in 0..(n - 1) : i \notin gone})
    IN  [j \in 1..Len(keep) |-> arr[keep[j] + 1]]

\* self._cpt[order, :] for a sequence of 1-based row positions.
Take(arr, order) == [j \in 1..Len(order) |-> arr[order[j]]]

\* The orders np.argsort(self.depth) may return: numpy's default sort kind
\* is not stable, so rows of equal depth may come out in either order.
ArgSorts(c) ==
    {p \in Permutations(1..Len(c)) :
        \A j \in 1..(Len(c) - 1) : c[p[j]][1] <= c[p[j + 1]][1]}

\* A sort that writes the sorted depths back and leaves the other columns
\* where they were.
ReorderDepthOnly(arr, order) ==
    [j \in 1..Len(arr) |-> [arr[j] EXCEPT ![1] = arr[order[j]][1]]]

\* Check 2's fix: self._cpt = self._cpt[np.argsort(self.depth), :].
Reorder(arr, order) == Take(arr, order)

RECURSIVE Sum(_)
Sum(s) == IF s = <<>> THEN 0 ELSE Head(s) + Sum(Tail(s))

SumSq(s) == Sum([j \in DOMAIN s |-> s[j] * s[j]])

-----------------------------------------------------------------------------
(* The checks of sanity_check: what each one flags.                        *)

\* Check 1 with the comparison depth < 0.
NegativeDepth(c) == Argwhere({i \in 0..(Len(c) - 1) : c[i + 1][1] < 0})

\* Check 1: np.argwhere(self.depth <= 0).
NonPositiveDepth(c) == Argwhere({i \in 0..(Len(c) - 1) : c[i + 1][1] <= 0})

\* Check 2: np.any(diff <= 0) with diff = depth[1:] - depth[:-1].
NotMonotonic(c) ==
    \E i \in 1..(Len(c) - 1) : c[i + 1][1] - c[i][1] <= 0

\* Check 3: np.argwhere(diff < 1E-6): position i of diff is the pair of
\* rows (i, i + 1).
DuplicateDepth(c) ==
    Argwhere({i \in 0..(Len(c) - 2) : c[i + 2][1] - c[i + 1][1] < EPS})

\* Check 4 looking at every column after depth (the slice 1: for 1:3).
NonPositiveReading(c) ==
    Argwhere({i \in 0..(Len(c) - 1) : \E j \in 2..Len(c[i + 1]) : c[i + 1][j] <= 0})

\* Check 4 looking at qc alone.
NonPositiveQc(c) == Argwhere({i \in 0..(Len(c) - 1) : c[i + 1][2] <= 0})

\* Check 4: np.argwhere(qc <= 0 or fs <= 0).
NonPositiveQcFs(c) ==
    Argwhere({i \in 0..(Len(c) - 1) : c[i + 1][2] <= 0 \/ c[i + 1][3] <= 0})

\* Check 5: the rows enumerate(self._cpt[w:-w], start=w) visits.
Screened(n, w) == IF w = 0 THEN {} ELSE {i \in 0..(n - 1) : i >= w /\ i < n - w}

\* The slice [index-w : index+w+1] with its middle row left in.
RegionWithMiddle(index, w) == [j \in 1..(2 * w + 1) |-> index - w + j]

\* The 1-based positions of the region of row index: the slice
\* [index-w : index+w+1] with its middle row removed.
Region(index, w) ==
    [j \in 1..(2 * w) |-> IF j <= w THEN index - w + j ELSE index - w + j + 1]

\* abs(x - mean)/std > nstd over the values vals, with std the sample
\* standard deviation (ddof=1).  With m = Len(vals), S = sum, Q = sum of
\* squares: mean = S/m and std^2 = (m*Q - S*S)/(m*(m-1)), so the test is
\* (m*x - S)^2 * (m-1) > nstd^2 * m * (m*Q - S*S).  A zero std gives
\* inf > nstd (true) when x differs from the mean and nan > nstd (false)
\* when it does not, which is what the inequality gives too.
ZExceeds(x, vals, nstd) ==
    LET m == Len(vals)
        S == Sum(vals)
        Q == SumSq(vals)
    IN  (m * x - S) * (m * x - S) * (m - 1) > nstd * nstd * m * (m * Q - S * S)

IsOutlier(c, index, w, nstd) ==
    LET region == Take(c, Region(index, w))
    IN  \/ ZExceeds(c[index + 1][2], qc(region), nstd)
        \/ ZExceeds(c[index + 1][3], fs(region), nstd)

Outliers(c, w, nstd) ==
    Ascending({i \in Screened(Len(c), w) : IsOutlier(c, i, w, nstd)})

-----------------------------------------------------------------------------
(* handle_problematic_indices.                                             *)

\* A validation that also lets the abbreviation "y" through.
RecognisedOrAbbreviated(policy) == policy \in {"yes", "no", "prompt", "y"}

\* The policy values sanity_check accepts.
Recognised(policy) == policy \in {"yes", "no", "prompt"}

\* The response variable when input() answered r.
Response(policy, r) == IF policy = "prompt" THEN r ELSE "n"

\* The decision with the policy string tested for truth (always true).
DiscardTruthy(response, policy) == response = "y" \/ policy # ""

\* Whether the flagged row is appended to indices_to_delete (and whether
\* the sort of check 2 is applied).
Discard(response, policy) == response = "y" \/ policy = "yes"

NextCheck(c) ==
    CASE c = "depth" -> "monotonic"
      [] c = "duplicate" -> "qcfs"
      [] c = "qcfs" -> "smooth"
      [] c = "smooth" -> "done"

-----------------------------------------------------------------------------
(* Construction.                                                           *)

\* What a row is chosen from in each family.
Choices(f) ==
    CASE f = "depth" -> DepthValues
      [] f = "reading" -> Readings
      [] f = "mixed" -> MixedRows

\* The input row at position i (1-based) for the choice v: any depth with
\* valid readings; valid depths 3E-6 apart with any reading; any mixed row.
\* The stores of the first two families are CPT objects (<<depth, qc, fs>>),
\* those of the third are CPTu objects (<<depth, qc, fs, u2>>).
InputRow(f, i, v) ==
    CASE f = "depth" -> <<v, 1, 1>>
      [] f = "reading" -> <<3 * i, v[1], v[2]>>
      [] f = "mixed" -> v

Variant(f) == IF f = "mixed" THEN 4 ELSE 3

\* Python's None as the value of a call: what a call that returns nothing,
\* or that raised, leaves behind.
NoneValue == [type |-> "None"]

\* No module has registered anything yet: both _register dicts are empty.
EmptyRegister == [CPT |-> <<>>, CPTu |-> <<>>]

\* A store as constructed with the default gwt=None, before
\* par_unit_weight.py is imported.
Defaults ==
    /\ gwt = <<>>
    /\ register = EmptyRegister
    /\ startup = 0

Idle ==
    /\ pc = "idle"
    /\ apply_fixes = "no"
    /\ window_pts = 0
    /\ check = "none"
    /\ problematic_indices = <<>>
    /\ indices_to_delete = <<>>
    /\ k = 0
    /\ key = <<>>
    /\ entry = <<>>
    /\ pre = <<>>
    /\ prompted = <<>>
    /\ printed = 0
    /\ err = "none"
    /\ fixed_with = -1
    /\ arg = [op |-> "none"]
    /\ ret = NoneValue

Init ==
    /\ \E n \in 0..MaxRows, f \in Families :
         \E in \in [1..n -> Choices(f)] :
            /\ ncols = Variant(f)
            /\ cpt = [i \in 1..n |-> InputRow(f, i, in[i])]
    /\ Idle
    /\ Defaults

-----------------------------------------------------------------------------
(* CPT.sanity_check, one step per check and per flagged row handled.       *)

\* Entry: the policy is validated before anything else.
SanityCheck(policy, w) ==
    /\ pc = "idle"
    /\ apply_fixes' = policy
    /\ window_pts' = w
    /\ entry' = cpt
    /\ pre' = cpt
    /\ IF ~Recognised(policy)
       THEN pc' = "raised" /\ err' = "ValueError"
       ELSE pc' = "depth" /\ err' = "none"
    /\ UNCHANGED <<cpt, ncols, check, problematic_indices, indices_to_delete,
                   k, key, prompted, printed, fixed_with>>
    /\ UNCHANGED extra

\* The call of handle_problematic_indices(flagged, ...) of check c.
EnterHandle(c, flagged) ==
    /\ pc' = "handle"
    /\ check' = c
    /\ problematic_indices' = flagged
    /\ indices_to_delete' = <<>>
    /\ k' = 0

\* A check whose guard np.any(...) is false is skipped.
Skip(c) ==
    /\ pc' = NextCheck(c)
    /\ UNCHANGED <<check, problematic_indices, indices_to_delete, k>>

ScanDepth ==
    /\ pc = "depth"
    /\ pre' = cpt
    /\ prompted' = <<>>
    /\ IF NonPositiveDepth(cpt) # <<>>
       THEN EnterHandle("depth", NonPositiveDepth(cpt))
       ELSE Skip("depth")
    /\ UNCHANGED <<cpt, ncols, apply_fixes, window_pts, key, entry, printed, err,
                   fixed_with>>
    /\ UNCHANGED extra

\* Check 2 asks at most one question and reorders the whole store.
Monotonic ==
    /\ pc = "monotonic"
    /\ pre' = cpt
    /\ pc' = "duplicate"
    /\ IF NotMonotonic(cpt)
       THEN \E r \in Responses, order \in ArgSorts(cpt) :
               /\ printed' = printed + 1
               /\ prompted' = IF apply_fixes = "prompt"
                              THEN <<<<-1, r>>>> ELSE <<>>
               /\ cpt' = IF Discard(Response(apply_fixes, r), apply_fixes)
                         THEN Reorder(cpt, order) ELSE cpt
       ELSE /\ prompted' = <<>>
            /\ UNCHANGED <<cpt, printed>>
    /\ UNCHANGED <<ncols, apply_fixes, window_pts, check, problematic_indices,
                   indices_to_delete, k, key, entry, err, fixed_with>>
    /\ UNCHANGED extra

ScanDuplicate ==
    /\ pc = "duplicate"
    /\ pre' = cpt
    /\ prompted' = <<>>
    /\ IF DuplicateDepth(cpt) # <<>>
       THEN EnterHandle("duplicate", DuplicateDepth(cpt))
       ELSE Skip("duplicate")
    /\ UNCHANGED <<cpt, ncols, apply_fixes, window_pts, key, entry, printed, err,
                   fixed_with>>
    /\ UNCHANGED extra

ScanQcFs ==
    /\ pc = "qcfs"
    /\ pre' = cpt
    /\ prompted' = <<>>
    /\ IF NonPositiveQcFs(cpt) # <<>>
       THEN EnterHandle("qcfs", NonPositiveQcFs(cpt))
       ELSE Skip("qcfs")
    /\ UNCHANGED <<cpt, ncols, apply_fixes, window_pts, key, entry, printed, err,
                   fixed_with>>
    /\ UNCHANGED extra

\* Check 5 has no guard: the handler and the deletion always run.
ScanSmooth ==
    /\ pc = "smooth"
    /\ pre' = cpt
    /\ prompted' = <<>>
    /\ EnterHandle("smooth", Outliers(cpt, window_pts, reject_nstd))
    /\ UNCHANGED <<cpt, ncols, apply_fixes, window_pts, key, entry, printed, err,
                   fixed_with>>
    /\ UNCHANGED extra

\* One iteration of the loop of handle_problematic_indices.
HandleIndex ==
    /\ pc = "handle"
    /\ k < Len(problematic_indices)
    /\ LET index == problematic_indices[k + 1]
       IN  \E r \in Responses :
              /\ prompted' = IF apply_fixes = "prompt"
                             THEN Append(prompted, <<index, r>>) ELSE prompted
              /\ indices_to_delete' =
                    IF Discard(Response(apply_fixes, r), apply_fixes)
                    THEN Append(indices_to_delete, index)
                    ELSE indices_to_delete
    /\ printed' = printed + 1
    /\ k' = k + 1
    /\ UNCHANGED <<cpt, ncols, pc, apply_fixes, window_pts, check,
                   problematic_indices, key, entry, pre, err, fixed_with>>
    /\ UNCHANGED extra

\* The handler returns and the check runs del self[indices_to_delete].
DeleteFlagged ==
    /\ pc = "handle"
    /\ k = Len(problematic_indices)
    /\ cpt' = NpDelete(cpt, indices_to_delete)
    /\ pc' = NextCheck(check)
    /\ UNCHANGED <<ncols, apply_fixes, window_pts, check, problematic_indices,
                   indices_to_delete, k, key, entry, pre, prompted, printed, err,
                   fixed_with>>
    /\ UNCHANGED extra

\* The call is over (returned or raised); its locals are gone.
Return ==
    /\ pc \in {"done", "raised", "deleted", "returned", "written"}
    /\ pc' = "idle"
    /\ apply_fixes' = "no"
    /\ window_pts' = 0
    /\ check' = "none"
    /\ problematic_indices' = <<>>
    /\ indices_to_delete' = <<>>
    /\ k' = 0
    /\ key' = <<>>
    /\ entry' = <<>>
    /\ pre' = <<>>
    /\ prompted' = <<>>
    /\ printed' = 0
    /\ err' = "none"
    /\ fixed_with' = IF pc = "done" /\ apply_fixes = "yes" THEN window_pts ELSE -1
    /\ arg' = [op |-> "none"]
    /\ ret' = NoneValue
    /\ UNCHANGED <<cpt, ncols, gwt, register, startup>>

Next ==
    \/ \E policy \in Policies, w \in WindowValues : SanityCheck(policy, w)
    \/ ScanDepth
    \/ Monotonic
    \/ ScanDuplicate
    \/ ScanQcFs
    \/ ScanSmooth
    \/ HandleIndex
    \/ DeleteFlagged
    \/ Return

Spec == Init /\ [][Next]_vars

-----------------------------------------------------------------------------
(* The store's own operations, called on an idle store.                    *)

\* The index lists handed to del self[key]: up to MaxKey indices, negative
\* and out-of-range ones included.
Keys(n) == UNION {[1..m -> (-(n + 1))..n] : m \in 0..MaxKey}

\* CPT.__delitem__: del self[key].
DelItem(ky) ==
    /\ pc = "idle"
    /\ key' = ky
    /\ entry' = cpt
    /\ pre' = cpt
    /\ IF KeyInBounds(cpt, ky)
       THEN cpt' = NpDelete(cpt, ky) /\ pc' = "deleted" /\ err' = "none"
       ELSE cpt' = cpt /\ pc' = "raised" /\ err' = "IndexError"
    /\ UNCHANGED <<ncols, apply_fixes, window_pts, check, problematic_indices,
                   indices_to_delete, k, prompted, printed, fixed_with>>
    /\ UNCHANGED extra

\* An instance of CPT, and one of CPTu, as a value: its class, its column
\* count and its _cpt (a CPTu also its gwt).
CPTObject(rows) == [type |-> "CPT", ncols |-> 3, cpt |-> rows]

CPTuObject(rows, g) == [type |-> "CPTu", ncols |-> 4, cpt |-> rows, gwt |-> g]

\* self, as a value.
Self == IF ncols = 4 THEN CPTuObject(cpt, gwt) ELSE CPTObject(cpt)

\* The name of column j (1-based) of the store.
Column(c, j) == [i \in 1..Len(c) |-> c[i][j]]

\* The slices handed to self[key]: <<start, stop, step>> with a positive
\* step; start and stop may be negative or past the end.
Slices(n) == ((-1)..n) \X ((-1)..(n + 1)) \X (1..MaxStep)

\* slice.indices(n) for a positive step: a negative bound counts from the
\* end, and both bounds are clipped to 0..n.
Clip(v, n) ==
    IF v < 0 THEN (IF v + n < 0 THEN 0 ELSE v + n)
    ELSE IF v > n THEN n ELSE v

\* The 1-based positions a slice selects from an array of n elements.
SliceIndices(sl, n) ==
    LET start == Clip(sl[1], n)
        stop == Clip(sl[2], n)
    IN  [j \in 1..Len(Ascending({i \in 0..(n - 1) :
                        i >= start /\ i < stop /\ (i - start) % sl[3] = 0}))
           |-> Ascending({i \in 0..(n - 1) :
                        i >= start /\ i < stop /\ (i - start) % sl[3] = 0})[j]
                  + 1]

\* self._cpt[:, j] = values: numpy accepts the assignment when values has
\* as many elements as the store has rows, or exactly one element (which
\* is broadcast to every row); anything else is a ValueError.
Broadcastable(n, values) == Len(values) = n \/ Len(values) = 1

Broadcast(n, values) ==
    [i \in 1..n |-> IF Len(values) = n THEN values[i] ELSE values[1]]

\* CPT.__init__ accepts its columns.
CPTInitOk(depth, qcs, fss) ==
    Broadcastable(Len(depth), qcs) /\ Broadcastable(Len(depth), fss)

\* The _cpt that CPT.__init__ builds: as many rows as depth has elements.
CPTInit(depth, qcs, fss) ==
    [i \in 1..Len(depth) |->
        <<depth[i], Broadcast(Len(depth), qcs)[i],
          Broadcast(Len(depth), fss)[i]>>]

\* CPTu.__init__ accepts its columns.
CPTuInitOk(depth, qcs, fss, u2s) ==
    CPTInitOk(depth, qcs, fss) /\ Broadcastable(Len(depth), u2s)

\* The _cpt that CPTu.__init__ builds.
CPTuInit(depth, qcs, fss, u2s) ==
    [i \in 1..Len(depth) |->
        Append(CPTInit(depth, qcs, fss)[i], Broadcast(Len(depth), u2s)[i])]

\* The object CPT.__getitem__ returns: CPT(depth=self.depth[key],
\* qc=self.qc[key], fs=self.fs[key]), whatever the class of self.
GetItemResult(sl) ==
    CPTObject(CPTInit(Take(Column(cpt, 1), SliceIndices(sl, Len(cpt))),
                      Take(Column(cpt, 2), SliceIndices(sl, Len(cpt))),
                      Take(Column(cpt, 3), SliceIndices(sl, Len(cpt)))))

\* CPT.__getitem__: self[key] for a slice.
GetItem(sl) ==
    /\ pc = "idle"
    /\ key' = sl
    /\ arg' = [op |-> "getitem"]
    /\ entry' = cpt
    /\ pre' = cpt
    /\ ret' = GetItemResult(sl)
    /\ pc' = "returned"
    /\ err' = "none"
    /\ UNCHANGED <<cpt, ncols, apply_fixes, window_pts, check,
                   problematic_indices, indices_to_delete, k, prompted, printed,
                   fixed_with, gwt, register, startup>>

\* CPT.is_similar: other is a CPT (a CPTu is one) of the same length.
IsSimilar(self, other) ==
    /\ other.type \in {"CPT", "CPTu"}
    /\ Len(self.cpt) = Len(other.cpt)

\* |a - b| <= atol + rtol * |b| of np.allclose with its default rtol=1E-5
\* and atol=1E-8, for integers a and b in units of which atol is
\* atol_units / RTOL_INV.
Abs(x) == IF x < 0 THEN -x ELSE x

IsClose(a, b, atol_units) == Abs(a - b) * RTOL_INV <= atol_units + Abs(b)

\* atol=1E-8 for column j: 1E-8 is 2000/RTOL_INV steps of the depth grid
\* (5E-7 m), and for the integer readings 1E-3/RTOL_INV, which no integer
\* difference can use.
AtolUnits(j) == IF j = 1 THEN DEPTH_ATOL ELSE 0

\* np.allclose(a, b) of two arrays of the same number of rows evaluates
\* only when their column counts are the same: (N, 3) and (N, 4) cannot be
\* broadcast together, for any N, and numpy raises ValueError.
AllCloseEvaluates(a, b) == a.ncols = b.ncols

AllClose(a, b) ==
    \A i \in 1..Len(a.cpt) : \A j \in 1..a.ncols :
        IsClose(a.cpt[i][j], b.cpt[i][j], AtolUnits(j))

\* The outcome of CPT.__eq__(self, other): "True", "False" or the name of
\* the exception raised.
Eq(self, other) ==
    IF ~IsSimilar(self, other) THEN "False"
    ELSE IF ~AllCloseEvaluates(self, other) THEN "ValueError"
    ELSE IF ~AllClose(self, other) THEN "False"
    ELSE "True"

\* A bool as the value of a call.
Bool(b) == [type |-> "bool", val |-> b]

\* The rows of c cut or padded to n columns (a missing u2 is padded as 0).
WithColumns(c, n) ==
    [i \in 1..Len(c) |-> [j \in 1..n |-> IF j <= Len(c[i]) THEN c[i][j] ELSE 0]]

\* The objects self is compared with: a copy of itself, of either variant;
\* the same with one value changed or with the last row missing; and an
\* object that is no CPT.
Others ==
    LET changed == [cpt EXCEPT ![1] = [@ EXCEPT ![2] = @ + 1]]
        shorter == SubSeq(cpt, 1, Len(cpt) - 1)
        rowsets == {cpt} \cup (IF cpt = <<>> THEN {} ELSE {changed, shorter})
    IN  {CPTObject(WithColumns(r, 3)) : r \in rowsets}
          \cup {CPTuObject(WithColumns(r, 4), <<>>) : r \in rowsets}
          \cup {[type |-> "str"]}

\* self == other.
EqCall(other) ==
    /\ pc = "idle"
    /\ arg' = [op |-> "eq", other |-> other]
    /\ entry' = cpt
    /\ pre' = cpt
    /\ IF Eq(Self, other) \in {"True", "False"}
       THEN /\ ret' = Bool(Eq(Self, other) = "True")
            /\ pc' = "returned"
            /\ err' = "none"
       ELSE /\ ret' = NoneValue
            /\ pc' = "raised"
            /\ err' = Eq(Self, other)
    /\ UNCHANGED <<cpt, ncols, apply_fixes, window_pts, check,
                   problematic_indices, indices_to_delete, k, key, prompted,
                   printed, fixed_with, gwt, register, startup>>

InitStore ==
    /\ \E n \in 0..MaxStoreRows, f \in {"depth", "mixed"} :
         \E in \in [1..n -> Choices(f)] :
            /\ ncols = Variant(f)
            /\ cpt = [i \in 1..n |-> InputRow(f, i, in[i])]
    /\ Idle
    /\ Defaults

\* The operations are called on a store on which no call is running.
NextStore ==
    \/ pc = "idle" /\ \E ky \in Keys(Len(cpt)) : DelItem(ky)
    \/ pc = "idle" /\ \E sl \in Slices(Len(cpt)) : GetItem(sl)
    \/ pc = "idle" /\ \E other \in Others : EqCall(other)
    \/ Return

SpecStore == InitStore /\ [][NextStore]_vars

-----------------------------------------------------------------------------
(* Construction of a store from input columns.                             *)

\* An input column of m elements, all different, and different from those
\* of every other column j.
InputColumn(j, m) == [i \in 1..m |-> 10 * j + i]

\* The ground water tables a CPTu is constructed with: None, and depths on
\* the grid.
GwtValues == {<<>>, <<5>>}

\* self = CPT(depth, qc, fs) (variant 3) or self = CPTu(depth, qc, fs, u2,
\* gwt=g) (variant 4) with columns of nd, nq, nf and nu elements.  When
\* __init__ raises, the name stays bound to the store it was bound to.
Construct(variant, nd, nq, nf, nu, g) ==
    /\ pc = "idle"
    /\ arg' = [op |-> "init", variant |-> variant,
               lens |-> IF variant = 4 THEN <<nd, nq, nf, nu>>
                        ELSE <<nd, nq, nf>>]
    /\ entry' = cpt
    /\ pre' = cpt
    /\ ret' = NoneValue
    /\ LET depth == InputColumn(0, nd)
           qcs == InputColumn(1, nq)
           fss == InputColumn(2, nf)
           u2s == InputColumn(3, nu)
       IN  IF variant = 4
           THEN IF CPTuInitOk(depth, qcs, fss, u2s)
                THEN /\ cpt' = CPTuInit(depth, qcs, fss, u2s)
                     /\ ncols' = 4
                     /\ gwt' = g
                     /\ pc' = "returned"
                     /\ err' = "none"
                ELSE /\ pc' = "raised"
                     /\ err' = "ValueError"
                     /\ UNCHANGED <<cpt, ncols, gwt>>
           ELSE IF CPTInitOk(depth, qcs, fss)
                THEN /\ cpt' = CPTInit(depth, qcs, fss)
                     /\ ncols' = 3
                     /\ gwt' = <<>>
                     /\ pc' = "returned"
                     /\ err' = "none"
                ELSE /\ pc' = "raised"
                     /\ err' = "ValueError"
                     /\ UNCHANGED <<cpt, ncols, gwt>>
    /\ UNCHANGED <<apply_fixes, window_pts, check, problematic_indices,
                   indices_to_delete, k, key, prompted, printed, fixed_with,
                   register, startup>>

\* The program starts with the empty store CPT([], [], []).
InitConstruct ==
    /\ cpt = <<>>
    /\ ncols = 3
    /\ Idle
    /\ Defaults

NextConstruct ==
    \/ \E nd \in 0..MaxLen, nq \in 0..MaxLen, nf \in 0..MaxLen :
          Construct(3, nd, nq, nf, 0, <<>>)
    \/ \E nd \in 0..MaxLen, nq \in 0..MaxLen, nf \in 0..MaxLen,
          nu \in 0..MaxLen, g \in GwtValues :
          Construct(4, nd, nq, nf, nu, g)
    \/ Return

SpecConstruct == InitConstruct /\ [][NextConstruct]_vars

-----------------------------------------------------------------------------
(* Derived quantities: CPT.rf and CPTu.u0, du, qt and ft.                  *)

\* A float as the exact fraction num/den (den = 0: the result of a division
\* by zero, inf or nan).
Frac(num, den) == [num |-> num, den |-> den]

\* An ndarray as the value of a call: its elements, and base = j when it
\* is the view self._cpt[:, j - 1] of the store (base = 0: it owns its
\* memory).
Array(data, base) == [type |-> "ndarray", data |-> data, base |-> base]

\* self.fs as the caller gets it: a view of column 3 of the store.
FsView(c) == Array([i \in 1..Len(c) |-> Frac(c[i][3], 1)], 3)

\* CPT.rf: (self.fs / self.qc) * 100, a new array.
Rf(c) == Array([i \in 1..Len(c) |-> Frac(c[i][3] * 100, c[i][2])], 0)

\* The exception that evaluating (self.depth - self.gwt)*GAMMA_W raises:
\* an ndarray minus None is a TypeError.
U0Raises(g) == IF g = <<>> THEN "TypeError" ELSE "none"

\* The except clause of u0 catches AttributeError only.
U0Catches(e) == e = "AttributeError"

\* What u0 raises: the ValueError of its except clause when that clause
\* catches the exception, otherwise the exception itself.
U0Error(g) ==
    IF U0Raises(g) = "none" THEN "none"
    ELSE IF U0Catches(U0Raises(g)) THEN "ValueError"
    ELSE U0Raises(g)

\* CPTu.u0 when gwt is a float: (depth - gwt)*GAMMA_W in kPa, 0 where
\* depth <= gwt.  Depths are in grid steps, GAMMA_W in 1/GAMMA_W_DEN kN/m3.
U0Value(d, g) ==
    IF d <= g THEN Frac(0, GRID_PER_M * GAMMA_W_DEN)
    ELSE Frac((d - g) * GAMMA_W_NUM, GRID_PER_M * GAMMA_W_DEN)

U0(c, g) == Array([i \in 1..Len(c) |-> U0Value(c[i][1], g[1])], 0)

\* CPTu.du: self.u2 - self.u0, a new array.
Du(c, g) ==
    Array([i \in 1..Len(c) |->
              Frac(c[i][4] * U0(c, g).data[i].den - U0(c, g).data[i].num,
                   U0(c, g).data[i].den)], 0)

\* The names bound in the namespace of module cptu.py: its imports and
\* its class.
CptuModuleNames == {"np", "CPT", "GAMMA_W", "PA", "CPTu"}

\* an (in hundredths) is outside the recommended range 0.7-0.85.
AnOutOfRange(an) == an < AN_MIN \/ an > AN_MAX

\* What qt raises: the name warnings is looked up when an is out of range.
QtError(an) ==
    IF AnOutOfRange(an) /\ "warnings" \notin CptuModuleNames
    THEN "NameError" ELSE "none"

\* CPTu.qt: self.qc + self.u2 * (1 - an), a new array.
Qt(c, an) ==
    Array([i \in 1..Len(c) |->
              Frac(c[i][2] * 100 + c[i][4] * (100 - an), 100)], 0)

\* A copy of self.fs, which owns its memory.
FsCopy(c) == Array([i \in 1..Len(c) |-> Frac(c[i][3], 1)], 0)

\* CPTu.ft: return self.fs.
Ft(c) == FsView(c)

\* A call of a derived quantity: op names it, value is what it returns
\* and error what it raises; warned counts its warnings.
Derive(op, a, value, error, warned) ==
    /\ pc = "idle"
    /\ arg' = [op |-> op, an |-> a]
    /\ entry' = cpt
    /\ pre' = cpt
    /\ IF error = "none"
       THEN /\ ret' = value
            /\ pc' = "returned"
            /\ printed' = printed + warned
       ELSE /\ ret' = NoneValue
            /\ pc' = "raised"
            /\ printed' = printed
    /\ err' = error
    /\ UNCHANGED <<cpt, ncols, apply_fixes, window_pts, check,
                   problematic_indices, indices_to_delete, k, key, prompted,
                   fixed_with, gwt, register, startup>>

RfCall == Derive("rf", 0, Rf(cpt), "none", 0)

U0Call ==
    /\ ncols = 4
    /\ Derive("u0", 0, IF U0Error(gwt) = "none" THEN U0(cpt, gwt) ELSE NoneValue,
              U0Error(gwt), 0)

DuCall ==
    /\ ncols = 4
    /\ Derive("du", 0, IF U0Error(gwt) = "none" THEN Du(cpt, gwt) ELSE NoneValue,
              U0Error(gwt), 0)

QtCall(an) ==
    /\ ncols = 4
    /\ Derive("qt", an, Qt(cpt, an), QtError(an),
              IF AnOutOfRange(an) THEN 1 ELSE 0)

FtCall ==
    /\ ncols = 4
    /\ Derive("ft", 0, Ft(cpt), "none", 0)

\* The caller assigns w to element i (0-based) of the array it was given.
\* A view writes through to the store.
WriteElement(i, w) ==
    /\ pc = "returned"
    /\ ret.type = "ndarray"
    /\ i < Len(ret.data)
    /\ ret' = [ret EXCEPT !.data[i + 1] = Frac(w, 1)]
    /\ cpt' = IF ret.base = 0 THEN cpt
              ELSE [cpt EXCEPT ![i + 1][ret.base] = w]
    /\ pc' = "written"
    /\ UNCHANGED <<ncols, apply_fixes, window_pts, check, problematic_indices,
                   indices_to_delete, k, key, entry, pre, prompted, printed,
                   err, fixed_with, gwt, arg, register, startup>>

\* Stores of both classes; a CPTu with and without a ground water table.
InitDerived ==
    /\ \E n \in 0..MaxStoreRows, f \in {"reading", "mixed"} :
         \E in \in [1..n -> Choices(f)] :
            /\ ncols = Variant(f)
            /\ cpt = [i \in 1..n |-> InputRow(f, i, in[i])]
            /\ gwt \in (IF f = "mixed" THEN GwtValues ELSE {<<>>})
    /\ Idle
    /\ register = EmptyRegister
    /\ startup = 0

NextDerived ==
    \/ RfCall
    \/ U0Call
    \/ DuCall
    \/ \E an \in AnValues : QtCall(an)
    \/ FtCall
    \/ \E i \in 0..(MaxStoreRows - 1), w \in WriteValues : WriteElement(i, w)
    \/ Return

SpecDerived == InitDerived /\ [][NextDerived]_vars

-----------------------------------------------------------------------------
(* The unit-weight registries and the procedures of par_unit_weight.py.    *)

\* The @<Registry>.register(name) statements of par_unit_weight.py, in the
\* order the import executes them, with the function each decorates.
Registrations ==
    << [registry |-> "CPTu", name |-> "Robertson and Cabal 2010",
        fn |-> "robertson_and_cabal_2010"],
       [registry |-> "CPTu", name |-> "Robertson 2010",
        fn |-> "robertson_2010"],
       [registry |-> "CPT", name |-> "Mayne et al. 2010",
        fn |-> "mayne_et_al_2010_cpt"],
       [registry |-> "CPTu", name |-> "Mayne et al. 2010",
        fn |-> "mayne_et_al_2010_cptu"],
       [registry |-> "CPT", name |-> "Mayne 2014",
        fn |-> "mayne_and_peuchen_2012_cpt"],
       [registry |-> "CPT", name |-> "Mayne 2014",
        fn |-> "mayne_and_peuchen_2012_cptu"] >>

\* The class whose instances a function of par_unit_weight.py takes: the
\* name of its first parameter, cpt or cptu.
Parameter(fn) ==
    IF fn \in {"robertson_and_cabal_2010", "robertson_2010",
               "mayne_et_al_2010_cptu", "mayne_and_peuchen_2012_cptu"}
    THEN "CPTu" ELSE "CPT"

\* The procedure names that unit_weight documents, and one that no module
\* registers.
ProcedureNames ==
    {"Robertson and Cabal 2010", "Robertson 2010", "Mayne et al. 2010",
     "Mayne 2014", "Lengkeek 2018"}

\* dict[name] = value.
DictSet(d, name, value) ==
    [n \in DOMAIN d \cup {name} |-> IF n = name THEN value ELSE d[n]]

\* AbstractRegistry.register(name)(fn) on the registry r: the entry is
\* written whether or not the name is already there.
RegisterEntry(reg, r, name, fn) ==
    [reg EXCEPT ![r] = DictSet(@, name, fn)]

\* The import of par_unit_weight.py executes its next registration; a
\* name that is already in the registry is logged as a warning.
Register ==
    /\ pc = "idle"
    /\ startup < Len(Registrations)
    /\ LET e == Registrations[startup + 1]
       IN  /\ register' = RegisterEntry(register, e.registry, e.name, e.fn)
           /\ printed' =
                 IF e.name \in DOMAIN register[e.registry]
                 THEN printed + 1 ELSE printed
    /\ startup' = startup + 1
    /\ UNCHANGED <<cpt, ncols, pc, apply_fixes, window_pts, check,
                   problematic_indices, indices_to_delete, k, key, entry, pre,
                   prompted, err, fixed_with, gwt, arg, ret>>

\* No import is under way: par_unit_weight.py has not been imported, or
\* its import is complete.
Imported == startup = Len(Registrations)

\* AbstractRegistry.create_class(name) on the registry r.
CreateClass(r, name) ==
    /\ pc = "idle"
    /\ startup \in {0, Len(Registrations)}
    /\ arg' = [op |-> "create_class", registry |-> r, name |-> name]
    /\ IF name \in DOMAIN register[r]
       THEN /\ ret' = [type |-> "function", name |-> register[r][name]]
            /\ pc' = "returned"
            /\ err' = "none"
       ELSE /\ ret' = NoneValue
            /\ pc' = "raised"
            /\ err' = "KeyError"
    /\ UNCHANGED <<cpt, ncols, apply_fixes, window_pts, check,
                   problematic_indices, indices_to_delete, k, key, entry, pre,
                   prompted, printed, fixed_with, gwt, register, startup>>

\* The names bound in the namespace of module geotech_tools.py.
GeotechModuleNames == {"np", "vertical_stress", "vertical_effective_stress"}

\* What vertical_effective_stress(depth, ...) raises: it calls
\* calculate_vertical_stress; vertical_stress, the function of that
\* purpose, rejects a depth <= 0 and indexes element 0.
VesError(c) ==
    IF "calculate_vertical_stress" \notin GeotechModuleNames THEN "NameError"
    ELSE IF \E i \in 1..Len(c) : c[i][1] <= 0 THEN "ValueError"
    ELSE IF c = <<>> THEN "IndexError"
    ELSE "none"

\* max_diff of each iteration against the tolerance 0.01: the floating
\* point values are not computed, every course of the refinement is
\* considered.
Diffs == {"below", "equal", "above"}

\* The iterations the loop runs when nothing raises: up to and including
\* the first whose max_diff < 0.01, at most niterations.
MayneSteps(niterations, diffs) ==
    IF \E i \in 1..niterations : diffs[i] = "below"
    THEN CHOOSE i \in 1..niterations :
            /\ diffs[i] = "below"
            /\ \A j \in 1..(i - 1) : diffs[j] # "below"
    ELSE niterations

\* The outcome of mayne_et_al_2010_cpt(cpt, niterations=n): the exception
\* raised ("none" when it returns), the iterations started, and the last
\* max_diff.  cpt.u0 is read first (a CPT has no u0); with no iteration
\* max_diff is unbound when it is tested after the loop.
Mayne(c, nc, g, niterations, diffs) ==
    IF nc = 3
    THEN [error |-> "AttributeError", steps |-> 0, last |-> "unbound"]
    ELSE IF U0Error(g) # "none"
    THEN [error |-> U0Error(g), steps |-> 0, last |-> "unbound"]
    ELSE IF niterations = 0
    THEN [error |-> "UnboundLocalError", steps |-> 0, last |-> "unbound"]
    ELSE IF VesError(c) # "none"
    THEN [error |-> VesError(c), steps |-> 1, last |-> "unbound"]
    ELSE [error |-> IF diffs[MayneSteps(niterations, diffs)] = "above"
                    THEN "RuntimeError" ELSE "none",
          steps |-> MayneSteps(niterations, diffs),
          last |-> diffs[MayneSteps(niterations, diffs)]]

\* mayne_et_al_2010_cpt(self, niterations=n).
MayneCall(niterations, diffs) ==
    /\ pc = "idle"
    /\ Imported
    /\ arg' = [op |-> "mayne", niterations |-> niterations,
               steps |-> Mayne(cpt, ncols, gwt, niterations, diffs).steps,
               last |-> Mayne(cpt, ncols, gwt, niterations, diffs).last]
    /\ entry' = cpt
    /\ pre' = cpt
    /\ err' = Mayne(cpt, ncols, gwt, niterations, diffs).error
    /\ IF Mayne(cpt, ncols, gwt, niterations, diffs).error = "none"
       THEN ret' = [type |-> "ndarray", base |-> 0] /\ pc' = "returned"
       ELSE ret' = NoneValue /\ pc' = "raised"
    /\ UNCHANGED <<cpt, ncols, apply_fixes, window_pts, check,
                   problematic_indices, indices_to_delete, k, key, prompted,
                   printed, fixed_with, gwt, register, startup>>

\* Stores of both classes of at most MaxUwRows rows; nothing imported.
InitRegistry ==
    /\ \E n \in 0..MaxUwRows, f \in {"reading", "mixed"} :
         \E in \in [1..n -> Choices(f)] :
            /\ ncols = Variant(f)
            /\ cpt = [i \in 1..n |-> InputRow(f, i, in[i])]
            /\ gwt \in (IF f = "mixed" THEN GwtValues ELSE {<<>>})
    /\ Idle
    /\ register = EmptyRegister
    /\ startup = 0

NextRegistry ==
    \/ Register
    \/ \E r \in {"CPT", "CPTu"}, name \in ProcedureNames : CreateClass(r, name)
    \/ \E n \in 0..MaxIterations :
          \E diffs \in [1..n -> Diffs] : MayneCall(n, diffs)
    \/ Return

SpecRegistry == InitRegistry /\ [][NextRegistry]_vars

-----------------------------------------------------------------------------
(* Properties of sanity_check.                                             *)

\* The call is between its entry and its return.
Running == pc \notin {"idle", "raised", "deleted", "returned", "written"}

\* The rows of c at the 0-based indices outside gone, in their order.
RowsOutside(c, gone) ==
    LET kept == {i \in 1..Len(c) : (i - 1) \notin gone}
        Nth(j) == CHOOSE i \in kept : Cardinality({q \in kept : q <= i}) = j
    IN  [j \in 1..Cardinality(kept) |-> c[Nth(j)]]

\* The members of a sequence.
Range(s) == {s[j] : j \in DOMAIN s}

\* C1: when sanity_check(apply_fixes="yes") has completed, every remaining
\* row has depth > 0, qc > 0 and fs > 0, and the depths of consecutive rows
\* are strictly increasing.
C1_ValidAfterApply ==
    (pc = "done" /\ apply_fixes = "yes") =>
        /\ \A i \in 1..Len(cpt) : cpt[i][1] > 0 /\ cpt[i][2] > 0 /\ cpt[i][3] > 0
        /\ \A i \in 1..(Len(cpt) - 1) : cpt[i][1] < cpt[i + 1][1]

\* An apply-mode call has completed on a store that was out of order and held
\* invalid rows, and at least two rows remain.
C1_Witness ==
    /\ pc = "done"
    /\ apply_fixes = "yes"
    /\ NotMonotonic(entry)
    /\ NonPositiveQcFs(entry) # <<>>
    /\ Len(cpt) >= 2
    /\ Len(cpt) < Len(entry)

\* C4: in report-only mode (apply_fixes="no") the store is, at every point
\* of the call, the sequence of rows it was at entry.
C4_ReportOnlyFrame ==
    (Running /\ apply_fixes = "no") => cpt = entry

\* A report-only call has completed on an unsorted store after printing
\* diagnostics for at least three flagged rows or conditions.
C4_Witness ==
    /\ pc = "done"
    /\ apply_fixes = "no"
    /\ NotMonotonic(entry)
    /\ printed >= 3
    /\ cpt = entry

\* C5: a policy other than "yes", "no" and "prompt" raises ValueError before
\* any check runs: nothing is flagged, printed or asked, and the store is
\* the one at entry.
C5_InvalidPolicy ==
    (pc # "idle" /\ apply_fixes \notin {"yes", "no", "prompt"}) =>
        /\ pc = "raised"
        /\ err = "ValueError"
        /\ cpt = entry
        /\ printed = 0
        /\ prompted = <<>>
        /\ problematic_indices = <<>>
        /\ indices_to_delete = <<>>

\* The call with the unrecognised policy "y" has raised on a store that holds
\* rows every check would flag.
C5_Witness ==
    /\ pc = "raised"
    /\ err = "ValueError"
    /\ apply_fixes = "y"
    /\ NonPositiveDepth(cpt) # <<>>
    /\ NotMonotonic(cpt)
    /\ NonPositiveQcFs(cpt) # <<>>

\* C6: under apply, when check 1 is over the store holds exactly the rows
\* whose depth was > 0 when the check scanned it, in their order.
C6_NonPositiveDepthRemoved ==
    (pc = "monotonic" /\ apply_fixes = "yes") =>
        cpt = SelectSeq(pre, LAMBDA row : row[1] > 0)

\* Check 1 has removed, under apply, two rows that had a row of positive
\* depth between them.
C6_Witness ==
    /\ pc = "monotonic"
    /\ apply_fixes = "yes"
    /\ \E i, j, l \in 1..Len(pre) :
          /\ i < j /\ j < l
          /\ pre[i][1] <= 0 /\ pre[j][1] > 0 /\ pre[l][1] <= 0
    /\ Len(cpt) = Len(pre) - 2

\* C7: when check 2 has fired under apply, the store holds the rows it held
\* before, each row whole, in ascending order of depth.
C7_SortIsPermutation ==
    (pc = "duplicate" /\ apply_fixes = "yes" /\ NotMonotonic(pre)) =>
        /\ \E p \in Permutations(1..Len(pre)) :
              cpt = [j \in 1..Len(pre) |-> pre[p[j]]]
        /\ \A i \in 1..(Len(cpt) - 1) : cpt[i][1] <= cpt[i + 1][1]

\* Check 2 has reordered, under apply, a 4-column store of at least three
\* rows that differ in qc, fs or u2.
C7_Witness ==
    /\ pc = "duplicate"
    /\ apply_fixes = "yes"
    /\ NotMonotonic(pre)
    /\ ncols = 4
    /\ Len(pre) >= 3
    /\ cpt # pre
    /\ \E i, j \in 1..Len(pre) : pre[i][1] # pre[j][1] /\ pre[i][4] # pre[j][4]

\* C8: under apply, when check 4 is over the store holds exactly the rows
\* that had qc > 0 and fs > 0 when the check scanned it, in their order,
\* whatever their u2.
C8_NonPositiveQcFsRemoved ==
    (pc = "smooth" /\ apply_fixes = "yes") =>
        cpt = SelectSeq(pre, LAMBDA row : row[2] > 0 /\ row[3] > 0)

\* Check 4 has removed, under apply, a row for its qc and a row for its fs,
\* and kept a row whose u2 is not positive.
C8_Witness ==
    /\ pc = "smooth"
    /\ apply_fixes = "yes"
    /\ ncols = 4
    /\ \E i, j \in 1..Len(pre) :
          /\ pre[i][2] <= 0 /\ pre[i][3] > 0 /\ pre[i][4] > 0
          /\ pre[j][3] <= 0 /\ pre[j][2] > 0
    /\ \E i \in 1..Len(cpt) : cpt[i][4] <= 0
    /\ Len(cpt) = Len(pre) - 2

\* What check c flags in the store c0 (window w).
Flagged(c, c0, w) ==
    CASE c = "depth" -> NonPositiveDepth(c0)
      [] c = "duplicate" -> DuplicateDepth(c0)
      [] c = "qcfs" -> NonPositiveQcFs(c0)
      [] c = "smooth" -> Outliers(c0, w, reject_nstd)

\* The rows input() was called for in the running check, in order.
PromptedIndices == [j \in DOMAIN prompted |-> prompted[j][1]]

\* The rows whose question was answered "y".
YesIndices == {prompted[j][1] : j \in {l \in DOMAIN prompted : prompted[l][2] = "y"}}

\* A deleting check has handled all its flagged rows and deleted.
CheckCompleted == check # "none" /\ pc = NextCheck(check)

\* C9: in interactive mode, while a deleting check (1, 3, 4, 5) handles its
\* flagged rows the store is untouched, the flagged list is the one scan's,
\* and one question has been asked per row handled so far; when the check
\* is over, one question was asked per flagged row and the store holds the
\* scanned rows except the flagged rows answered "y", in their order.
C9_InteractiveBatchDelete ==
    /\ (apply_fixes = "prompt" /\ pc = "handle") =>
          /\ cpt = pre
          /\ problematic_indices = Flagged(check, pre, window_pts)
          /\ PromptedIndices = SubSeq(problematic_indices, 1, k)
    /\ (apply_fixes = "prompt" /\ CheckCompleted) =>
          /\ problematic_indices = Flagged(check, pre, window_pts)
          /\ PromptedIndices = problematic_indices
          /\ YesIndices \subseteq Range(problematic_indices)
          /\ cpt = RowsOutside(pre, YesIndices)

\* An interactive check is over in which three flagged rows were answered
\* "y", "n" and "y" in this order, and rows remain.
C9_Witness ==
    /\ apply_fixes = "prompt"
    /\ CheckCompleted
    /\ \E a, b, c \in DOMAIN prompted :
          /\ a < b /\ b < c
          /\ prompted[a][2] = "y" /\ prompted[b][2] = "n" /\ prompted[c][2] = "y"
    /\ Len(cpt) = Len(pre) - 2
    /\ Len(cpt) >= 2

\* C3 (as claimed): under apply, when check 3 is over the store holds the
\* scanned rows except the second row i + 1 of every pair (i, i + 1) whose
\* depths differ by less than 1E-6.
C3_SecondOfPairRemoved ==
    (pc = "qcfs" /\ apply_fixes = "yes") =>
        cpt = RowsOutside(pre, {i + 1 : i \in Range(DuplicateDepth(pre))})

\* The call is an apply-mode call that immediately follows an apply-mode
\* call with the same window.
SecondApplyRun == Running /\ apply_fixes = "yes" /\ fixed_with = window_pts

\* C2 (as claimed): an apply-mode call that immediately follows an
\* apply-mode call with the same window flags nothing and leaves the store
\* as it found it.
C2_Idempotent ==
    SecondApplyRun => (cpt = entry /\ printed = 0)

\* C2 (amended): in such a call checks 1 to 4 flag nothing and change
\* nothing; only the local-outlier screen may flag and delete rows.
C2_IdempotentBeforeScreen ==
    SecondApplyRun =>
        /\ check \in {"none", "smooth"}
        /\ (pc \in {"depth", "monotonic", "duplicate", "qcfs", "smooth"}) =>
              (cpt = entry /\ printed = 0)

\* A second apply-mode call has completed and its screen deleted a row.
C2_Witness ==
    /\ SecondApplyRun
    /\ pc = "done"
    /\ Len(cpt) < Len(entry)

-----------------------------------------------------------------------------
(* Properties of the store's own operations.                               *)

\* C10: del self[key] with every index a position of the store (0 <= index
\* < length) leaves a store whose length is the previous length minus the
\* number of distinct indices, holding the other rows, each whole, in their
\* order.
C10_DeleteRows ==
    (pc = "deleted" /\ \A j \in DOMAIN key : key[j] >= 0 /\ key[j] < Len(pre)) =>
        /\ Len(cpt) = Len(pre) - Cardinality(Range(key))
        /\ cpt = RowsOutside(pre, Range(key))

\* Two positions, the later one first, have been deleted from a store of
\* three rows or more.
C10_Witness ==
    /\ pc = "deleted"
    /\ Len(key) = 2
    /\ key[2] >= 0
    /\ key[1] > key[2] + 1
    /\ key[1] < Len(pre)
    /\ Len(cpt) = Len(pre) - 2

\* The store of self's own class built from the sliced input columns: the
\* u2 column, and gwt, included for a CPTu.
SlicedColumnsStore(sl) ==
    IF ncols = 4
    THEN CPTuObject(CPTuInit(Take(Column(cpt, 1), SliceIndices(sl, Len(cpt))),
                             Take(Column(cpt, 2), SliceIndices(sl, Len(cpt))),
                             Take(Column(cpt, 3), SliceIndices(sl, Len(cpt))),
                             Take(Column(cpt, 4), SliceIndices(sl, Len(cpt)))),
                    gwt)
    ELSE CPTObject(CPTInit(Take(Column(cpt, 1), SliceIndices(sl, Len(cpt))),
                           Take(Column(cpt, 2), SliceIndices(sl, Len(cpt))),
                           Take(Column(cpt, 3), SliceIndices(sl, Len(cpt)))))

\* C11: for a CPT and for a CPTu alike, self[key] returns a new store of
\* the class and column count of self (u2 kept for a CPTu) that compares
\* equal to the store built from the sliced input columns; the slice over
\* the full range compares equal to self.
C11_SliceSameVariant ==
    (pc = "returned" /\ arg.op = "getitem") =>
        /\ ret.type = Self.type
        /\ ret.ncols = ncols
        /\ Eq(ret, SlicedColumnsStore(key)) = "True"
        /\ (key = <<0, Len(cpt), 1>> => Eq(ret, Self) = "True")

\* The shapes of self and other differ: other is no store, or has another
\* number of rows or of columns.
ShapesDiffer(other) ==
    \/ other.type \notin {"CPT", "CPTu"}
    \/ Len(other.cpt) # Len(cpt)
    \/ other.ncols # ncols

\* C12: self == other always returns a bool, and returns False whenever the
\* shapes differ; a 3-column store compared with a 4-column one gives False
\* for every pair of row counts, equal row counts included.
C12_EqualsIsTotal ==
    (pc \in {"returned", "raised"} /\ arg.op = "eq") =>
        /\ pc = "returned"
        /\ ret.type = "bool"
        /\ (ShapesDiffer(arg.other) => ret.val = FALSE)

\* The input columns of the last constructor call are not all of one length.
UnequalLengths == \E a, b \in DOMAIN arg.lens : arg.lens[a] # arg.lens[b]

\* C13: whenever the input columns of CPT(...) or CPTu(...) are not all of
\* the same length, a column of one element next to a longer depth
\* included, construction fails with the shape error and creates no store.
C13_UnequalLengthsRejected ==
    (pc \in {"returned", "raised"} /\ arg.op = "init" /\ UnequalLengths) =>
        /\ pc = "raised"
        /\ err = "ValueError"
        /\ cpt = entry

-----------------------------------------------------------------------------
(* Properties of the derived quantities.                                   *)

\* C14: u0 (and du, which needs it) of a CPTu whose gwt is None fails with
\* the dedicated ValueError ("ground water table (gwt) is not defined"),
\* not with any other exception, and leaves the store unchanged.
C14_MissingGwtError ==
    (pc \in {"returned", "raised"} /\ arg.op \in {"u0", "du"} /\ gwt = <<>>) =>
        /\ pc = "raised"
        /\ err = "ValueError"
        /\ cpt = entry

\* C15: qt with an outside 0.7-0.85 warns once, does not fail, and returns
\* qc + u2 * (1 - an) for every row.
C15_QtWarnsAndProceeds ==
    (pc \in {"returned", "raised"} /\ arg.op = "qt" /\ AnOutOfRange(arg.an)) =>
        /\ pc = "returned"
        /\ err = "none"
        /\ printed = 1
        /\ ret.type = "ndarray"
        /\ \A i \in 1..Len(cpt) :
              ret.data[i].num * 100 =
                  (cpt[i][2] * 100 + cpt[i][4] * (100 - arg.an)) * ret.data[i].den

\* The derived quantities.
DerivedOps == {"rf", "u0", "du", "qt", "ft"}

\* C16: every derived quantity (rf, u0, du, qt, ft) returns an array that
\* does not alias the store: writing to any of its elements leaves every
\* column of the store unchanged.
C16_DerivedAreFresh ==
    /\ (pc = "returned" /\ arg.op \in DerivedOps) => ret.base = 0
    /\ (pc = "written" /\ arg.op \in DerivedOps) => cpt = entry

\* C16, amended: rf, u0, du and qt return arrays that do not alias the
\* store; ft returns the view self.fs, and a write to its element i is a
\* write to fs of row i (and to nothing else).
C16_FreshExceptFt ==
    /\ (pc = "returned" /\ arg.op \in DerivedOps) =>
          ret.base = (IF arg.op = "ft" THEN 3 ELSE 0)
    /\ (pc = "written" /\ arg.op \in DerivedOps \ {"ft"}) => cpt = entry
    /\ (pc = "written" /\ arg.op = "ft") =>
          /\ Len(cpt) = Len(entry)
          /\ \A i \in 1..Len(cpt) : \A j \in 1..ncols :
                \/ cpt[i][j] = entry[i][j]
                \/ j = 3 /\ ret.data[i] = Frac(cpt[i][3], 1)
          /\ \A i \in 1..Len(cpt) : ret.data[i] = Frac(cpt[i][3], 1)

\* A write to the array that ft returned has changed the store.
C16_Witness ==
    /\ pc = "written"
    /\ arg.op = "ft"
    /\ cpt # entry

-----------------------------------------------------------------------------
(* Properties of the unit-weight procedures and their registries.          *)

\* C17: for every budget niterations the iterative unit-weight formula
\* runs at most niterations refinement steps and ends in exactly one of
\* two ways: it returns an estimate whose last maximum change was below
\* the tolerance 0.01, or it fails with the convergence error
\* (RuntimeError); it returns no other estimate and fails in no other way.
C17_ConvergesOrConvergenceError ==
    (pc \in {"returned", "raised"} /\ arg.op = "mayne") =>
        /\ arg.steps <= arg.niterations
        /\ \/ pc = "returned" /\ arg.last = "below"
           \/ pc = "raised" /\ err = "RuntimeError"

\* The procedure names CPTu_Paramters.unit_weight documents.
DocumentedCPTuNames ==
    {"Robertson and Cabal 2010", "Robertson 2010", "Mayne et al. 2010",
     "Mayne 2014"}

\* C18: no entry of a registry is ever a function registered for the
\* other class (so none was overwritten by one, and the CPT registry holds
\* nothing registered for CPTu), and once every startup registration has
\* run the CPTu registry resolves each documented CPTu procedure name.
C18_RegistriesSeparate ==
    /\ \A r \in {"CPT", "CPTu"} : \A name \in DOMAIN register[r] :
          Parameter(register[r][name]) = r
    /\ Imported => \A name \in DocumentedCPTuNames :
                      name \in DOMAIN register["CPTu"]

-----------------------------------------------------------------------------
(* Properties of the local-outlier screen and of the duplicate check.      *)

\* The rows i-w..i+w of a store of n rows other than row i (0-based).
Neighbours(i, w, n) ==
    {j \in 0..(n - 1) : j # i /\ j >= i - w /\ j <= i + w}

\* Column col of the neighbours of row i, in any order.
NeighbourValues(c, i, w, col) ==
    [j \in 1..Cardinality(Neighbours(i, w, Len(c))) |->
        c[Ascending(Neighbours(i, w, Len(c)))[j] + 1][col]]

\* Row i is away from both ends by w or more, and its qc or its fs is more
\* than reject_nstd sample standard deviations from the mean of its
\* neighbours.
ScreenFlags(c, i, w) ==
    /\ w <= i
    /\ i < Len(c) - w
    /\ Cardinality(Neighbours(i, w, Len(c))) = 2 * w
    /\ \/ ZExceeds(c[i + 1][2], NeighbourValues(c, i, w, 2), reject_nstd)
       \/ ZExceeds(c[i + 1][3], NeighbourValues(c, i, w, 3), reject_nstd)

\* The local-outlier screen has scanned, and may have deleted.
ScreenRan == check = "smooth" /\ pc \in {"handle", "done"}

\* C19: the rows the local-outlier screen flags are those rows i with
\* w <= i < N - w of the store as it stood when the screen started whose
\* qc or fs is outlying against exactly the 2*w rows i-w..i+w other than
\* i; the store is untouched until all of them are handled, and the rows
\* with i < w or i >= N - w are neither flagged nor deleted by the screen.
C19_ScreenWindow ==
    ScreenRan =>
        /\ Range(problematic_indices) =
              {i \in 0..(Len(pre) - 1) : ScreenFlags(pre, i, window_pts)}
        /\ \A i \in Range(problematic_indices) :
              window_pts <= i /\ i < Len(pre) - window_pts
        /\ pc = "handle" => cpt = pre
        /\ pc = "done" =>
              /\ Range(indices_to_delete) \subseteq Range(problematic_indices)
              /\ cpt = RowsOutside(pre, Range(indices_to_delete))
              /\ \A i \in 0..(Len(pre) - 1) :
                    (i < window_pts \/ i >= Len(pre) - window_pts) =>
                        \E j \in 1..Len(cpt) :
                           /\ cpt[j] = pre[i + 1]
                           /\ j <= i + 1
                           /\ Len(cpt) - j <= Len(pre) - (i + 1)

\* The screen with window 1 deleted row 1 of a store whose last row, as
\* outlying as row 1 but at the edge, stayed.
C19_Witness ==
    /\ ScreenRan
    /\ pc = "done"
    /\ window_pts = 1
    /\ 1 \in Range(indices_to_delete)
    /\ pre[2][2] = 9
    /\ pre[Len(pre)][2] = 9
    /\ cpt[Len(cpt)] = pre[Len(pre)]

\* Row i of c has a neighbouring row whose depth is within 1E-6 of its own.
HasCloseNeighbour(c, i) ==
    \E j \in {i - 1, i + 1} :
        /\ j >= 0
        /\ j < Len(c)
        /\ Abs(c[j + 1][1] - c[i + 1][1]) < EPS

\* C20: whatever the policy and the answers (the sort of check 2 declined,
\* or never offered in report-only mode), every row the duplicate-depth
\* check flags, and so every row it deletes, has a neighbouring row whose
\* depth is within 1E-6 of its own: a row that is only out of depth order
\* is not flagged as a duplicate.
C20_DuplicatesAreClose ==
    (check = "duplicate" /\ pc \in {"handle", "qcfs"}) =>
        /\ \A i \in Range(problematic_indices) : HasCloseNeighbour(pre, i)
        /\ \A i \in Range(indices_to_delete) : HasCloseNeighbour(pre, i)

====
